---- MODULE Spec2Model ----
(***************************************************************************)
(* CloudWatchMetricsBuffer (cwmetrics/__init__.py): the metrics list, the  *)
(* batched send() loop, and the count/timeit decorators with the           *)
(* nesting_level guard of _nested.  Program counters of a frame are the    *)
(* source line numbers of cwmetrics/__init__.py.                           *)
(***************************************************************************)
EXTENDS Integers, Sequences, FiniteSets, TLC

VARIABLES
    metrics,        \* self.metrics: the list of buffered metric dicts
    nesting_level,  \* self.nesting_level
    clock,          \* the wall clock read by datetime.utcnow() / datetime.now()
    sent,           \* the calls received by client.put_metric_data, with their outcome
    stack,          \* per thread: the call stack of frames
    exc,            \* per thread: the exception being propagated, or NoExc
    top,            \* per thread: the top-level call in progress / last completed
    ops             \* the work done so far: send() calls (SpecSend), calls and decorators (Spec)

vars == <<metrics, nesting_level, clock, sent, stack, exc, top, ops>>

\* ------------------------------------------------------------------ bounds
MaxLen == 22       \* SpecSend: number of values buffered (more than one batch)
MaxSends == 2      \* SpecSend: number of send() calls
MaxWork == 4       \* Spec: direct calls made plus decorators applied in a run
MaxDims == 2       \* SpecDims: number of dimensions passed in one call
MaxPuts == 1       \* SpecDims: number of put_value/put_statistic calls
MaxRacePuts == 1   \* SpecRace: number of put_value calls of the other thread once send() began
MaxGuardCalls == 2 \* SpecGuardRace: number of decorated calls the two threads make
MaxFlushes == 1    \* SpecFlushFair: number of send() calls after the values are buffered

\* put_metric_data is limited to 20 messages at a time (self.metrics[:20])
BatchSize == 20

Threads == {"t1", "t2"}
MainThread == "t1"
OtherThread == "t2"

\* ------------------------------------------------------------------ values
None == "NoneType"
NoExc == "NoExc"
\* what client.put_metric_data does with a batch: accept it, reject it with
\* ClientError code Throttling, reject it with another ClientError code, or fail
\* with an exception that is no ClientError
Outcomes == {"ok", "Throttling", "InternalFailure", "EndpointConnectionError"}
ClientErrorCodes == {"Throttling", "InternalFailure"}
AppError == "AppError"
RetValue == "value"

Min(a, b) == IF a < b THEN a ELSE b

\* ---------------------------------------------------------- the metric dict
\* dimensions is passed as [type |-> "dict" | "list" | "tuple" | None, val |-> ...];
\* a dict value is the sequence of its (key, value) items.
\* (mutant) [{'Name': v, 'Value': k} for k, v in dimensions.items()]
DictItemsSwapped(d) == [i \in 1..Len(d) |-> [Name |-> d[i][2], Value |-> d[i][1]]]

\* [{'Name': k, 'Value': v} for k, v in dimensions.items()]
DictItems(d) == [i \in 1..Len(d) |-> [Name |-> d[i][1], Value |-> d[i][2]]]

HandleCommonParams(metric, dimensions, unit, timestamp) ==
    LET m1 == IF unit # None THEN metric @@ ("Unit" :> unit) ELSE metric
        m2 == IF dimensions.type = "dict"
              THEN m1 @@ ("Dimensions" :> DictItems(dimensions.val))
              ELSE IF dimensions.type \in {"list", "tuple"}
                   THEN m1 @@ ("Dimensions" :> dimensions.val)
                   ELSE m1
    IN  IF timestamp # None THEN m2 @@ ("Timestamp" :> timestamp)
        ELSE m2 @@ ("Timestamp" :> clock)

NoDimensions == [type |-> None, val |-> <<>>]

\* the dimensions a caller passes: a dict (its items in insertion order, every
\* key once), a list or a tuple of {'Name': .., 'Value': ..} dicts (any names,
\* in any order), or nothing
DimNames == {"dim1", "dim2"}
DimValues == {"dim_value1", "dim_value2"}
SeqsUpTo(S, n) == UNION {[1..k -> S] : k \in 0..n}
DictInputs == {d \in SeqsUpTo(DimNames \X DimValues, MaxDims) :
                  \A i, j \in 1..Len(d) : d[i][1] = d[j][1] => i = j}
ListInputs == SeqsUpTo([Name : DimNames, Value : DimValues], MaxDims)
DimensionInputs ==
    {[type |-> "dict", val |-> d] : d \in DictInputs}
    \cup {[type |-> ty, val |-> l] : ty \in {"list", "tuple"}, l \in ListInputs}
    \cup {NoDimensions}

\* put_value: the metric dict appended by lines 41-43
ValueMetric(metric_name, value, dimensions, unit, timestamp) ==
    HandleCommonParams(("MetricName" :> metric_name) @@ ("Value" :> value),
                       dimensions, unit, timestamp)

\* put_statistic: the metric dict appended by lines 61-64
StatisticMetric(metric_name, sample_count, sum, minimum, maximum, timestamp, dimensions, unit) ==
    HandleCommonParams(("MetricName" :> metric_name) @@
                       ("StatisticValues" :> [Sum |-> sum, SampleCount |-> sample_count,
                                              Minimum |-> minimum, Maximum |-> maximum]),
                       dimensions, unit, timestamp)

\* (mutant) self.metrics.insert(0, metric): the metric is put first in the buffer
AppendFront_(metric) ==
    /\ metrics' = <<metric>> \o metrics
    /\ clock' = clock + 1

\* self.metrics.append(metric), with the clock read by datetime.utcnow()
Append_(metric) ==
    /\ metrics' = Append(metrics, metric)
    /\ clock' = clock + 1

\* (mutant) del self.metrics[:21]: the deletion is one longer than the slice sent
DelBatchOneMore(l) == SubSeq(l, Min(BatchSize + 1, Len(l)) + 1, Len(l))

\* (mutant) del self.metrics[20:]: what is deleted is the rest, not the batch
DelBatchRest(l) == SubSeq(l, 1, Min(BatchSize, Len(l)))

\* self.metrics[:20]
FirstBatch(l) == SubSeq(l, 1, Min(BatchSize, Len(l)))
\* del self.metrics[:20]
DelBatch(l) == SubSeq(l, Min(BatchSize, Len(l)) + 1, Len(l))

\* ------------------------------------------------------------------ frames
NoDeco == [kind |-> None, metric_name |-> None, count_value |-> 0]

\* A frame: the function executing (fn), its line (pc), its locals ret and
\* start/duration/metrics (loc); for a decorator wrapper the decorator (d), the
\* decorators applied below it (ws) and the program it wraps (prog).
Frame(fn, pc, d, ws, prog) ==
    [fn |-> fn, pc |-> pc, ret |-> None, loc |-> <<>>, d |-> d, ws |-> ws, prog |-> prog]

SendFrame == Frame("send", 91, NoDeco, <<>>, <<>>)

Idle == [op |-> None, status |-> "idle", val |-> None, prog |-> <<>>, args |-> <<>>,
         pre |-> [metrics |-> <<>>, nsent |-> 0, level |-> 0, clock |-> 0], frame |-> SendFrame]

Top(t) == stack[t][Len(stack[t])]
Pop(s) == SubSeq(s, 1, Len(s) - 1)
SetTop(s, fr) == [s EXCEPT ![Len(s)] = fr]
Running(t) == stack[t] # <<>> /\ exc[t] = NoExc
At(t, fn, pc) == Running(t) /\ Top(t).fn = fn /\ Top(t).pc = pc

\* the line a frame continues at when the call it made at line pc returns
AfterCall(fn, pc) ==
    CASE fn = "nested" /\ pc = 154 -> 155
      [] fn = "nested" /\ pc = 158 -> 159
      [] fn = "count" /\ pc = 135 -> 136
      [] fn = "timeit" /\ pc = 116 -> 117
      [] OTHER -> pc + 1

\* whether the call made at line pc assigns its result (ret = func(...))
AssignsRet(fn, pc) == pc \in {154, 135, 116} /\ fn \in {"nested", "count", "timeit"}

\* The top frame returns v to its caller: the caller continues after its call
\* line; with no caller left the top-level call has returned.
Return(t, v) ==
    LET fr == Top(t)
        s == Pop(stack[t])
    IN  IF s = <<>>
        THEN /\ stack' = [stack EXCEPT ![t] = <<>>]
             /\ top' = [top EXCEPT ![t].status = "returned", ![t].val = v, ![t].frame = fr]
        ELSE LET c == s[Len(s)]
                 c2 == [c EXCEPT !.pc = AfterCall(c.fn, c.pc),
                                 !.ret = IF AssignsRet(c.fn, c.pc) THEN v ELSE c.ret]
             IN  /\ stack' = [stack EXCEPT ![t] = SetTop(s, c2)]
                 /\ top' = top

\* the top frame calls: a new frame is pushed, the caller waits at its call line
Push(t, fr) == stack' = [stack EXCEPT ![t] = Append(stack[t], fr)]

\* ------------------------------------------------------------------- send()
\* (mutant) while len(self.metrics) >= 0
SendLoopAlways(t) ==
    /\ At(t, "send", 91)
    /\ stack' = [stack EXCEPT ![t] =
                    SetTop(stack[t], [Top(t) EXCEPT !.pc = 95, !.loc = FirstBatch(metrics)])]
    /\ UNCHANGED <<metrics, nesting_level, clock, sent, exc, top, ops>>

\* line 91: while len(self.metrics) > 0; line 93: metrics = self.metrics[:20]
SendLoop(t) ==
    /\ At(t, "send", 91)
    /\ IF Len(metrics) > 0
       THEN /\ stack' = [stack EXCEPT ![t] =
                           SetTop(stack[t], [Top(t) EXCEPT !.pc = 95, !.loc = FirstBatch(metrics)])]
            /\ top' = top
       ELSE Return(t, None)
    /\ UNCHANGED <<metrics, nesting_level, clock, sent, exc, ops>>

\* (mutant) a throttled batch is tried again: the except clause continues the loop
SendPutMetricDataRetry(t) ==
    /\ At(t, "send", 95)
    /\ \E o \in Outcomes :
        /\ sent' = Append(sent, [batch |-> Top(t).loc, outcome |-> o])
        /\ IF o = "ok" \/ o = "Throttling"
           THEN /\ stack' = [stack EXCEPT ![t] =
                               SetTop(stack[t], [Top(t) EXCEPT !.pc = IF o = "ok" THEN 101 ELSE 91])]
                /\ exc' = exc
           ELSE /\ exc' = [exc EXCEPT ![t] = o]
                /\ stack' = stack
    /\ UNCHANGED <<metrics, nesting_level, clock, top, ops>>

\* lines 95-100: client.put_metric_data(...) and the except clause
SendPutMetricData(t) ==
    /\ At(t, "send", 95)
    /\ \E o \in Outcomes :
        /\ sent' = Append(sent, [batch |-> Top(t).loc, outcome |-> o])
        /\ IF o = "ok" \/ (o \in ClientErrorCodes /\ o = "Throttling")
           THEN /\ stack' = [stack EXCEPT ![t] = SetTop(stack[t], [Top(t) EXCEPT !.pc = 101])]
                /\ exc' = exc
           ELSE /\ exc' = [exc EXCEPT ![t] = o]
                /\ stack' = stack
    /\ UNCHANGED <<metrics, nesting_level, clock, top, ops>>

\* (mutant) the del statement is missing
SendDelMissing(t) ==
    /\ At(t, "send", 101)
    /\ stack' = [stack EXCEPT ![t] = SetTop(stack[t], [Top(t) EXCEPT !.pc = 91])]
    /\ UNCHANGED <<metrics, nesting_level, clock, sent, exc, top, ops>>

\* (mutant) self.metrics = []: the whole buffer is dropped after a batch
SendDelAll(t) ==
    /\ At(t, "send", 101)
    /\ metrics' = <<>>
    /\ stack' = [stack EXCEPT ![t] = SetTop(stack[t], [Top(t) EXCEPT !.pc = 91])]
    /\ UNCHANGED <<nesting_level, clock, sent, exc, top, ops>>

\* line 101: del self.metrics[:20]
SendDel(t) ==
    /\ At(t, "send", 101)
    /\ metrics' = DelBatch(metrics)
    /\ stack' = [stack EXCEPT ![t] = SetTop(stack[t], [Top(t) EXCEPT !.pc = 91])]
    /\ UNCHANGED <<nesting_level, clock, sent, exc, top, ops>>

\* An exception leaves the top frame: no frame of this module has a handler or
\* a finally clause (the except clause of send() is part of SendPutMetricData).
Unwind(t) ==
    /\ stack[t] # <<>>
    /\ exc[t] # NoExc
    /\ LET s == Pop(stack[t])
       IN  /\ stack' = [stack EXCEPT ![t] = s]
           /\ IF s = <<>>
              THEN /\ top' = [top EXCEPT ![t].status = "raised", ![t].val = exc[t],
                                         ![t].frame = Top(t)]
                   /\ exc' = [exc EXCEPT ![t] = NoExc]
              ELSE UNCHANGED <<top, exc>>
    /\ UNCHANGED <<metrics, nesting_level, clock, sent, ops>>

\* ------------------------------------------------------- top-level callers
AtTopLevel(t) == stack[t] = <<>> /\ exc[t] = NoExc

\* what the caller sees when it makes a top-level call
Snapshot == [metrics |-> metrics, nsent |-> Len(sent), level |-> nesting_level, clock |-> clock]

\* mb.put_value(name, value) called by the application
TopPutValue(t) ==
    /\ AtTopLevel(t)
    /\ \E name \in {"test_metric1"}, value \in {11} :
         Append_(ValueMetric(name, value, NoDimensions, None, None))
    /\ top' = [top EXCEPT ![t] = [Idle EXCEPT !.op = "put_value", !.status = "returned",
                                              !.pre = Snapshot]]
    /\ UNCHANGED <<nesting_level, sent, stack, exc>>

\* mb.put_statistic(name, sample_count, sum, minimum, maximum)
TopPutStatistic(t) ==
    /\ AtTopLevel(t)
    /\ \E name \in {"test_metric2"} :
         Append_(StatisticMetric(name, 2, 30, 10, 20, None, NoDimensions, None))
    /\ top' = [top EXCEPT ![t] = [Idle EXCEPT !.op = "put_statistic", !.status = "returned",
                                              !.pre = Snapshot]]
    /\ UNCHANGED <<nesting_level, sent, stack, exc>>

\* mb.put_value(name, value, dimensions=..., unit=...) with the arguments of
\* _handle_common_params drawn from their inputs
TopPutValueArgs(t) ==
    /\ AtTopLevel(t)
    /\ \E dimensions \in DimensionInputs, unit \in {None, "Count"} :
         /\ Append_(ValueMetric("test_metric2", 22, dimensions, unit, None))
         /\ top' = [top EXCEPT ![t] =
                       [Idle EXCEPT !.op = "put_value", !.status = "returned", !.pre = Snapshot,
                                    !.args = [dimensions |-> dimensions, unit |-> unit,
                                              timestamp |-> None]]]
    /\ UNCHANGED <<nesting_level, sent, stack, exc>>

\* mb.put_statistic(name, sample_count, sum, minimum, maximum, timestamp=..., dimensions=...)
TopPutStatisticArgs(t) ==
    /\ AtTopLevel(t)
    /\ \E dimensions \in DimensionInputs, timestamp \in {None, "2019-11-01T12:00:00"} :
         /\ Append_(StatisticMetric("test_metric2", 2, 30, 10, 20, timestamp, dimensions, None))
         /\ top' = [top EXCEPT ![t] =
                       [Idle EXCEPT !.op = "put_statistic", !.status = "returned", !.pre = Snapshot,
                                    !.args = [dimensions |-> dimensions, unit |-> None,
                                              timestamp |-> timestamp]]]
    /\ UNCHANGED <<nesting_level, sent, stack, exc>>

\* mb.send() called by the application
TopSend(t) ==
    /\ AtTopLevel(t)
    /\ Push(t, SendFrame)
    /\ top' = [top EXCEPT ![t] = [Idle EXCEPT !.op = "send", !.status = "running",
                                              !.pre = Snapshot]]
    /\ UNCHANGED <<metrics, nesting_level, clock, sent, exc>>

\* --------------------------------------------------- decorated functions
\* the decorators of test_nesting, outermost first
CountMetric == [kind |-> "count", metric_name |-> "count_metric", count_value |-> 1]
TimeMetric == [kind |-> "timeit", metric_name |-> "time_metric", count_value |-> 0]
CountMetric2 == [kind |-> "count", metric_name |-> "count_metric2", count_value |-> 100]
Decorators == <<CountMetric, TimeMetric, CountMetric2>>

\* k decorators stacked on one function: @count @timeit @count(100) @count ...
DecoStack(k) == [i \in 1..k |-> Decorators[((i - 1) % Len(Decorators)) + 1]]

\* What a decorated function's body does before it ends: nothing (pass), an
\* explicit mb.send(), or a call of another decorated function; then it returns
\* a value or raises.
BodyKinds == {[stmt |-> "pass", end |-> "return"], [stmt |-> "pass", end |-> "raise"],
              [stmt |-> "send", end |-> "return"],
              [stmt |-> "call", end |-> "return"], [stmt |-> "call", end |-> "raise"]}

\* A program is the chain of decorated functions a top-level call runs: prog[1]
\* is the function called, and when its body is a call it calls prog[2], and so
\* on.  Programs(n) are the programs that apply at most n decorators.
RECURSIVE Programs(_)
Programs(n) ==
    IF n <= 0 THEN {}
    ELSE UNION {
           {<<[ws |-> DecoStack(k), stmt |-> b.stmt, end |-> b.end]>> :
                b \in {x \in BodyKinds : x.stmt # "call"}}
           \cup
           {<<[ws |-> DecoStack(k), stmt |-> b.stmt, end |-> b.end]>> \o p :
                b \in {x \in BodyKinds : x.stmt = "call"}, p \in Programs(n - k)}
           : k \in 1..n }

\* the decorators a program applies
RECURSIVE NDecorators(_)
NDecorators(prog) ==
    IF prog = <<>> THEN 0 ELSE Len(prog[1].ws) + NDecorators(Tail(prog))

\* calling the decorated function prog[1]: its outermost wrapper is _nested's
NestedFrame(prog) ==
    Frame("nested", 153, prog[1].ws[1], Tail(prog[1].ws), prog)

\* the function a decorator wraps: the next decorator's wrapper, or the body
WrappedFrame(fr) ==
    IF fr.ws # <<>> THEN Frame("nested", 153, fr.ws[1], Tail(fr.ws), fr.prog)
    ELSE Frame("body", 1, NoDeco, <<>>, fr.prog)

\* the application calls a decorated function
TopCall(t, prog) ==
    /\ AtTopLevel(t)
    /\ Push(t, NestedFrame(prog))
    /\ top' = [top EXCEPT ![t] = [Idle EXCEPT !.op = "call", !.status = "running",
                                              !.prog = prog, !.pre = Snapshot]]
    /\ UNCHANGED <<metrics, nesting_level, clock, sent, exc>>

Goto(t, pc) == stack' = [stack EXCEPT ![t] = SetTop(stack[t], [Top(t) EXCEPT !.pc = pc])]

\* (mutant) the nesting level is a flag: self.nesting_level = 1
NestedIncFlag(t) ==
    /\ At(t, "nested", 153)
    /\ nesting_level' = 1
    /\ Goto(t, 154)
    /\ UNCHANGED <<metrics, clock, sent, exc, top, ops>>

\* _nested.wrapper, line 153: self.nesting_level += 1
NestedInc(t) ==
    /\ At(t, "nested", 153)
    /\ nesting_level' = nesting_level + 1
    /\ Goto(t, 154)
    /\ UNCHANGED <<metrics, clock, sent, exc, top, ops>>

\* Lines 153 and 155 with a second thread on the buffer: self.nesting_level += 1
\* reads the attribute, adds, and stores the result, and another thread can run
\* between the read and the store.  loc holds the value read.
NestedIncLoad(t) ==
    /\ At(t, "nested", 153) /\ Top(t).loc = <<>>
    /\ stack' = [stack EXCEPT ![t] = SetTop(stack[t], [Top(t) EXCEPT !.loc = <<nesting_level>>])]
    /\ UNCHANGED <<metrics, nesting_level, clock, sent, exc, top, ops>>

NestedIncStore(t) ==
    /\ At(t, "nested", 153) /\ Top(t).loc # <<>>
    /\ nesting_level' = Top(t).loc[1] + 1
    /\ stack' = [stack EXCEPT ![t] = SetTop(stack[t], [Top(t) EXCEPT !.pc = 154, !.loc = <<>>])]
    /\ UNCHANGED <<metrics, clock, sent, exc, top, ops>>

NestedDecLoad(t) ==
    /\ At(t, "nested", 155) /\ Top(t).loc = <<>>
    /\ stack' = [stack EXCEPT ![t] = SetTop(stack[t], [Top(t) EXCEPT !.loc = <<nesting_level>>])]
    /\ UNCHANGED <<metrics, nesting_level, clock, sent, exc, top, ops>>

NestedDecStore(t) ==
    /\ At(t, "nested", 155) /\ Top(t).loc # <<>>
    /\ nesting_level' = Top(t).loc[1] - 1
    /\ stack' = [stack EXCEPT ![t] = SetTop(stack[t], [Top(t) EXCEPT !.pc = 157, !.loc = <<>>])]
    /\ UNCHANGED <<metrics, clock, sent, exc, top, ops>>

\* line 154: ret = func(*args, **kwargs), func being the count or timeit wrapper
NestedCallFunc(t) ==
    /\ At(t, "nested", 154)
    /\ Push(t, Frame(Top(t).d.kind, IF Top(t).d.kind = "timeit" THEN 115 ELSE 135,
                     Top(t).d, Top(t).ws, Top(t).prog))
    /\ UNCHANGED <<metrics, nesting_level, clock, sent, exc, top, ops>>

\* (mutant) the exit resets the level: self.nesting_level = 0
NestedDecReset(t) ==
    /\ At(t, "nested", 155)
    /\ nesting_level' = 0
    /\ Goto(t, 157)
    /\ UNCHANGED <<metrics, clock, sent, exc, top, ops>>

\* line 155: self.nesting_level -= 1
NestedDec(t) ==
    /\ At(t, "nested", 155)
    /\ nesting_level' = nesting_level - 1
    /\ Goto(t, 157)
    /\ UNCHANGED <<metrics, clock, sent, exc, top, ops>>

\* (mutant) self.send() is called at every exit, whatever the nesting level
NestedCheckAlways(t) ==
    /\ At(t, "nested", 157)
    /\ stack' = [stack EXCEPT ![t] =
                    Append(SetTop(stack[t], [Top(t) EXCEPT !.pc = 158]), SendFrame)]
    /\ UNCHANGED <<metrics, nesting_level, clock, sent, exc, top, ops>>

\* (mutant) if self.nesting_level == 1: self.send()
NestedCheckOffByOne(t) ==
    /\ At(t, "nested", 157)
    /\ IF nesting_level = 1
       THEN stack' = [stack EXCEPT ![t] =
                        Append(SetTop(stack[t], [Top(t) EXCEPT !.pc = 158]), SendFrame)]
       ELSE Goto(t, 159)
    /\ UNCHANGED <<metrics, nesting_level, clock, sent, exc, top, ops>>

\* (mutant) the level is taken off after the flush:
\* if self.nesting_level == 1: self.send(); then self.nesting_level -= 1
NestedCheckHoldsLevel(t) ==
    /\ At(t, "nested", 157)
    /\ IF nesting_level = 0
       THEN /\ stack' = [stack EXCEPT ![t] =
                           Append(SetTop(stack[t], [Top(t) EXCEPT !.pc = 158]), SendFrame)]
            /\ nesting_level' = 1
       ELSE Goto(t, 159) /\ nesting_level' = nesting_level
    /\ UNCHANGED <<metrics, clock, sent, exc, top, ops>>

\* lines 157-158: if self.nesting_level == 0: self.send()
NestedCheck(t) ==
    /\ At(t, "nested", 157)
    /\ IF nesting_level = 0
       THEN stack' = [stack EXCEPT ![t] =
                        Append(SetTop(stack[t], [Top(t) EXCEPT !.pc = 158]), SendFrame)]
       ELSE Goto(t, 159)
    /\ UNCHANGED <<metrics, nesting_level, clock, sent, exc, top, ops>>

\* line 159: return ret
NestedReturn(t) ==
    /\ At(t, "nested", 159)
    /\ Return(t, Top(t).ret)
    /\ UNCHANGED <<metrics, nesting_level, clock, sent, exc, ops>>

\* (mutant) the count wrapper records before it calls func
CountCallFuncRecordFirst(t) ==
    /\ At(t, "count", 135)
    /\ Push(t, WrappedFrame(Top(t)))
    /\ Append_(ValueMetric(Top(t).d.metric_name, Top(t).d.count_value, NoDimensions, None, None))
    /\ UNCHANGED <<nesting_level, sent, exc, top, ops>>

\* count wrapper, line 135: ret = func(*args, **kwargs)
CountCallFunc(t) ==
    /\ At(t, "count", 135)
    /\ Push(t, WrappedFrame(Top(t)))
    /\ UNCHANGED <<metrics, nesting_level, clock, sent, exc, top, ops>>

\* (mutant) the count wrapper keeps a running total and records it
CountPutValueRunningTotal(t) ==
    /\ At(t, "count", 136)
    /\ Append_(ValueMetric(Top(t).d.metric_name, Top(t).d.count_value * ops, NoDimensions, None, None))
    /\ Goto(t, 137)
    /\ UNCHANGED <<nesting_level, sent, exc, top, ops>>

\* line 136: self.put_value(metric_name=metric_name, value=count_value, dimensions=dimensions)
CountPutValue(t) ==
    /\ At(t, "count", 136)
    /\ Append_(ValueMetric(Top(t).d.metric_name, Top(t).d.count_value, NoDimensions, None, None))
    /\ Goto(t, 137)
    /\ UNCHANGED <<nesting_level, sent, exc, top, ops>>

\* line 137: return ret
CountReturn(t) ==
    /\ At(t, "count", 137)
    /\ Return(t, Top(t).ret)
    /\ UNCHANGED <<metrics, nesting_level, clock, sent, exc, ops>>

\* timeit wrapper, line 115: start = datetime.now()
TimeitStart(t) ==
    /\ At(t, "timeit", 115)
    /\ stack' = [stack EXCEPT ![t] = SetTop(stack[t], [Top(t) EXCEPT !.pc = 116, !.loc = clock])]
    /\ clock' = clock + 1
    /\ UNCHANGED <<metrics, nesting_level, sent, exc, top, ops>>

\* line 116: ret = func(*args, **kwargs)
TimeitCallFunc(t) ==
    /\ At(t, "timeit", 116)
    /\ Push(t, WrappedFrame(Top(t)))
    /\ UNCHANGED <<metrics, nesting_level, clock, sent, exc, top, ops>>

\* line 117: duration = (datetime.now() - start).total_seconds() * 1000
TimeitDuration(t) ==
    /\ At(t, "timeit", 117)
    /\ stack' = [stack EXCEPT ![t] =
                    SetTop(stack[t], [Top(t) EXCEPT !.pc = 118, !.loc = clock - Top(t).loc])]
    /\ clock' = clock + 1
    /\ UNCHANGED <<metrics, nesting_level, sent, exc, top, ops>>

\* line 118: self.put_value(metric_name, value=duration, dimensions, unit='Milliseconds')
TimeitPutValue(t) ==
    /\ At(t, "timeit", 118)
    /\ Append_(ValueMetric(Top(t).d.metric_name, Top(t).loc, NoDimensions, "Milliseconds", None))
    /\ Goto(t, 119)
    /\ UNCHANGED <<nesting_level, sent, exc, top, ops>>

\* line 119: return ret
TimeitReturn(t) ==
    /\ At(t, "timeit", 119)
    /\ Return(t, Top(t).ret)
    /\ UNCHANGED <<metrics, nesting_level, clock, sent, exc, ops>>

\* (mutant) send() returns at once when called inside a decorated function:
\* if self.nesting_level > 0: return
BodyStmtSendDeferred(t) ==
    /\ At(t, "body", 1)
    /\ LET b == Top(t).prog[1]
       IN  CASE b.stmt = "pass" -> Goto(t, 2)
             [] b.stmt = "send" -> IF nesting_level > 0 THEN Goto(t, 2) ELSE Push(t, SendFrame)
             [] b.stmt = "call" -> Push(t, NestedFrame(Tail(Top(t).prog)))
    /\ UNCHANGED <<metrics, nesting_level, clock, sent, exc, top, ops>>

\* the body of a decorated function: its statement
BodyStmt(t) ==
    /\ At(t, "body", 1)
    /\ LET b == Top(t).prog[1]
       IN  CASE b.stmt = "pass" -> Goto(t, 2)
             [] b.stmt = "send" -> Push(t, SendFrame)
             [] b.stmt = "call" -> Push(t, NestedFrame(Tail(Top(t).prog)))
    /\ UNCHANGED <<metrics, nesting_level, clock, sent, exc, top, ops>>

\* the body ends: it returns a value or raises
BodyEnd(t) ==
    /\ At(t, "body", 2)
    /\ IF Top(t).prog[1].end = "return"
       THEN Return(t, RetValue) /\ exc' = exc
       ELSE exc' = [exc EXCEPT ![t] = AppError] /\ UNCHANGED <<stack, top>>
    /\ UNCHANGED <<metrics, nesting_level, clock, sent, ops>>

\* ------------------------------------------------------------ specifications
Init ==
    /\ metrics = <<>>
    /\ nesting_level = 0
    /\ clock = 0
    /\ sent = <<>>
    /\ stack = [t \in Threads |-> <<>>]
    /\ exc = [t \in Threads |-> NoExc]
    /\ top = [t \in Threads |-> Idle]
    /\ ops = 0

\* one thread buffering values and calling send()
\* (the first value buffered is a value or a statistic, the others are values)
NextSend ==
    \/ (clock < MaxLen /\ TopPutValue(MainThread) /\ ops' = ops)
    \/ (clock = 0 /\ TopPutStatistic(MainThread) /\ ops' = ops)
    \/ (ops < MaxSends /\ TopSend(MainThread) /\ ops' = ops + 1)
    \/ SendLoop(MainThread)
    \/ SendPutMetricData(MainThread)
    \/ SendDel(MainThread)
    \/ Unwind(MainThread)

SpecSend == Init /\ [][NextSend]_vars

\* one thread buffering values and then calling send(), and send() again after
\* a send() that raised
NextFlush ==
    \/ (ops = 0 /\ clock < MaxLen /\ TopPutValue(MainThread) /\ ops' = ops)
    \/ (ops = 0 /\ clock = 0 /\ TopPutStatistic(MainThread) /\ ops' = ops)
    \/ (ops < MaxFlushes /\ TopSend(MainThread) /\ ops' = ops + 1)
    \/ SendLoop(MainThread)
    \/ SendPutMetricData(MainThread)
    \/ SendDel(MainThread)
    \/ Unwind(MainThread)

\* the thread in send() goes on: every transport call returns or raises, and
\* every statement of send() that can run does run
SpecFlushFair ==
    /\ Init /\ [][NextFlush]_vars
    /\ WF_vars(SendLoop(MainThread))
    /\ WF_vars(SendPutMetricData(MainThread))
    /\ WF_vars(SendDel(MainThread))
    /\ WF_vars(Unwind(MainThread))

\* Two threads on one buffer, with no lock: one calls send() while the other
\* calls put_value.  A thread switch can come between any two statements; the
\* list operations themselves (append, the slice of line 93, the del of line
\* 101) are atomic.  An append between the test of line 91 and the slice of line
\* 93 is the same as an append before line 91, so the two lines are one step.
\* The other thread buffers values before the first send() begins, and up to
\* MaxRacePuts more while a send() runs or after it.
NextRace ==
    \/ (/\ IF ops = 0 THEN clock < MaxLen
                      ELSE clock - top[MainThread].pre.clock < MaxRacePuts
        /\ TopPutValue(OtherThread) /\ ops' = ops)
    \/ (ops < MaxFlushes /\ TopSend(MainThread) /\ ops' = ops + 1)
    \/ SendLoop(MainThread)
    \/ SendPutMetricData(MainThread)
    \/ SendDel(MainThread)
    \/ Unwind(MainThread)

SpecRace == Init /\ [][NextRace]_vars

\* the function each thread calls: one count decorator, a body that returns
ProgramOf(t) ==
    <<[ws |-> <<IF t = MainThread THEN CountMetric ELSE CountMetric2>>,
       stmt |-> "pass", end |-> "return"]>>

\* Two threads calling decorated functions of one buffer, with no lock: a thread
\* switch can come between any two statements, and inside line 153 and line 155.
NextGuardRace ==
    \E t \in Threads :
        \/ (ops < MaxGuardCalls /\ TopCall(t, ProgramOf(t)) /\ ops' = ops + 1)
        \/ NestedIncLoad(t)
        \/ NestedIncStore(t)
        \/ NestedCallFunc(t)
        \/ NestedDecLoad(t)
        \/ NestedDecStore(t)
        \/ NestedCheck(t)
        \/ NestedReturn(t)
        \/ CountCallFunc(t)
        \/ CountPutValue(t)
        \/ CountReturn(t)
        \/ BodyStmt(t)
        \/ BodyEnd(t)
        \/ SendLoop(t)
        \/ SendPutMetricData(t)
        \/ SendDel(t)
        \/ Unwind(t)

SpecGuardRace == Init /\ [][NextGuardRace]_vars

\* one thread using the buffer directly and through decorated functions
Next ==
    \/ (ops < MaxWork /\ TopPutValue(MainThread) /\ ops' = ops + 1)
    \/ (ops < MaxWork /\ TopPutStatistic(MainThread) /\ ops' = ops + 1)
    \/ (ops < MaxWork /\ TopSend(MainThread) /\ ops' = ops + 1)
    \/ (\E prog \in Programs(MaxWork - ops) :
            TopCall(MainThread, prog) /\ ops' = ops + NDecorators(prog))
    \/ SendLoop(MainThread)
    \/ SendPutMetricData(MainThread)
    \/ SendDel(MainThread)
    \/ Unwind(MainThread)
    \/ NestedInc(MainThread)
    \/ NestedCallFunc(MainThread)
    \/ NestedDec(MainThread)
    \/ NestedCheck(MainThread)
    \/ NestedReturn(MainThread)
    \/ CountCallFunc(MainThread)
    \/ CountPutValue(MainThread)
    \/ CountReturn(MainThread)
    \/ TimeitStart(MainThread)
    \/ TimeitCallFunc(MainThread)
    \/ TimeitDuration(MainThread)
    \/ TimeitPutValue(MainThread)
    \/ TimeitReturn(MainThread)
    \/ BodyStmt(MainThread)
    \/ BodyEnd(MainThread)

Spec == Init /\ [][Next]_vars

\* one thread calling put_value and put_statistic with dimensions
NextDims ==
    \/ (clock < MaxPuts /\ TopPutValueArgs(MainThread) /\ ops' = ops)
    \/ (clock < MaxPuts /\ TopPutStatisticArgs(MainThread) /\ ops' = ops)

SpecDims == Init /\ [][NextDims]_vars

\* ------------------------------------------------------------------- claims
ThisCall == top[MainThread]
\* the transport calls made since the top-level call in progress (or last made) began
CallsOfThisCall == (ThisCall.pre.nsent + 1)..Len(sent)
Completed == ThisCall.status \in {"returned", "raised"}

RECURSIVE ConcatBatches(_, _)
ConcatBatches(i, j) == IF i > j THEN <<>> ELSE sent[i].batch \o ConcatBatches(i + 1, j)

Elems(seq) == {seq[i] : i \in 1..Len(seq)}
IsSuffix(a, b) == Len(a) <= Len(b) /\ SubSeq(b, Len(b) - Len(a) + 1, Len(b)) = a

\* C1: after put_value/put_statistic calls, a send() whose transport calls all
\* succeed has passed every buffered metric to the transport exactly once, the
\* batches concatenated are the buffer in append order, every batch holds 1 to 20
\* metrics and every batch but the last exactly 20, and the buffer is empty when
\* send() returns.
C1_SendDeliversAllInOrder ==
    (/\ ThisCall.op = "send"
     /\ ThisCall.status = "returned"
     /\ \A i \in CallsOfThisCall : sent[i].outcome = "ok")
    => /\ metrics = <<>>
       /\ ConcatBatches(ThisCall.pre.nsent + 1, Len(sent)) = ThisCall.pre.metrics
       /\ \A m \in Elems(ThisCall.pre.metrics) :
            Cardinality({ij \in UNION {{<<i, j>> : j \in 1..Len(sent[i].batch)} : i \in CallsOfThisCall} :
                            sent[ij[1]].batch[ij[2]] = m}) = 1
       /\ \A i \in CallsOfThisCall :
            /\ Len(sent[i].batch) \in 1..BatchSize
            /\ i < Len(sent) => Len(sent[i].batch) = BatchSize

C1_Witness ==
    /\ ThisCall.op = "send"
    /\ ThisCall.status = "returned"
    /\ Len(ThisCall.pre.metrics) > BatchSize
    /\ ThisCall.pre.nsent = 0
    /\ Len(sent) = 2
    /\ \A i \in CallsOfThisCall : sent[i].outcome = "ok"
    /\ "StatisticValues" \in DOMAIN ThisCall.pre.metrics[1]

\* C2: a batch the transport rejects with ClientError code Throttling is dropped:
\* it is removed from the buffer and no metric of it is passed to the transport
\* again, in this send() or a later one; send() goes on with the next batch (the
\* batches of a send() that meets only accepted and throttled calls are the whole
\* buffer, each attempted once) and returns normally with an empty buffer.
C2_ThrottledBatchDropped ==
    /\ \A i \in 1..Len(sent) : sent[i].outcome = "Throttling" =>
        /\ \A j \in (i + 1)..Len(sent) : Elems(sent[i].batch) \cap Elems(sent[j].batch) = {}
        /\ (i < Len(sent) \/ ~(stack[MainThread] # <<>> /\ Top(MainThread).fn = "send"
                               /\ Top(MainThread).pc = 101))
             => Elems(sent[i].batch) \cap Elems(metrics) = {}
    /\ (sent # <<>> /\ sent[Len(sent)].outcome = "Throttling") => exc[MainThread] = NoExc
    /\ (/\ ThisCall.op = "send"
        /\ Completed
        /\ \A i \in CallsOfThisCall : sent[i].outcome \in {"ok", "Throttling"})
       => /\ ThisCall.status = "returned"
          /\ metrics = <<>>
          /\ ConcatBatches(ThisCall.pre.nsent + 1, Len(sent)) = ThisCall.pre.metrics

\* a first send() whose first batch was throttled went on with a second batch and
\* returned; a later send() then passed the metric buffered in between
C2_Witness ==
    /\ Len(sent) = 3
    /\ sent[1].outcome = "Throttling" /\ Len(sent[1].batch) = BatchSize
    /\ sent[2].outcome = "ok"
    /\ ThisCall.op = "send" /\ ThisCall.status = "returned" /\ ThisCall.pre.nsent = 2
    /\ metrics = <<>>

\* C3: when a transport call of send() fails with an error other than Throttling,
\* the error reaches the caller of send() and that call was the last transport
\* call of the send(); the metrics of the batches accepted earlier in that send()
\* are no longer buffered, and the metrics after the failing batch are still at
\* the end of the buffer, in their order.
C3_OtherErrorPropagates ==
    (ThisCall.op = "send" /\ ThisCall.status = "raised")
    => LET n == Len(sent) - ThisCall.pre.nsent
           after == SubSeq(ThisCall.pre.metrics, BatchSize * n + 1, Len(ThisCall.pre.metrics))
       IN  /\ n >= 1
           /\ sent[Len(sent)].outcome \notin {"ok", "Throttling"}
           /\ ThisCall.val = sent[Len(sent)].outcome
           /\ \A i \in CallsOfThisCall : i < Len(sent) => sent[i].outcome \in {"ok", "Throttling"}
           /\ \A i \in CallsOfThisCall :
                sent[i].outcome = "ok" => Elems(sent[i].batch) \cap Elems(metrics) = {}
           /\ IsSuffix(after, metrics)

\* the first batch of more than 20 buffered metrics failed: the rest is still buffered
C3_Witness ==
    /\ ThisCall.op = "send" /\ ThisCall.status = "raised"
    /\ Len(ThisCall.pre.metrics) = BatchSize + 2
    /\ Len(sent) = ThisCall.pre.nsent + 1
    /\ ThisCall.val = "InternalFailure"
    /\ Len(metrics) >= 2

\* C9: send() on an empty buffer makes no transport call, returns normally, and
\* leaves the buffer empty and nesting_level as it was.
C9_SendOnEmptyIsNoOp ==
    (ThisCall.op = "send" /\ ThisCall.pre.metrics = <<>>)
    => /\ ThisCall.status # "raised"
       /\ Len(sent) = ThisCall.pre.nsent
       /\ metrics = <<>>
       /\ nesting_level = ThisCall.pre.level
       /\ exc[MainThread] = NoExc

C9_Witness ==
    /\ ThisCall.op = "send" /\ ThisCall.pre.metrics = <<>>
    /\ ThisCall.status = "returned"
    /\ nesting_level = 1
    /\ sent # <<>>

\* the stack of the single thread, and the places of send() frames on it
MainStack == stack[MainThread]
SendFrames == {i \in 1..Len(MainStack) : MainStack[i].fn = "send"}
NamesOf(seq) == [i \in 1..Len(seq) |-> seq[i].MetricName]
\* the metric names the decorators ws record when all return: innermost first
RecordedBy(ws) == [i \in 1..Len(ws) |-> ws[Len(ws) + 1 - i].metric_name]
\* the metric names a program records when every function of it returns
RECURSIVE ExpectedNames(_)
ExpectedNames(prog) ==
    IF prog = <<>> THEN <<>> ELSE ExpectedNames(Tail(prog)) \o RecordedBy(prog[1].ws)
\* one function, whose body does nothing and returns
Plain(prog) == Len(prog) = 1 /\ prog[1].stmt = "pass" /\ prog[1].end = "return"
\* a chain of calls, every body returning, the innermost doing nothing else
CallChain(prog) ==
    /\ Len(prog) >= 2
    /\ \A i \in 1..Len(prog) : prog[i].end = "return"
    /\ prog[Len(prog)].stmt = "pass"
\* the only send() is the one the outermost wrapper makes at line 158, with
\* nesting_level back at 0, and inner exits find nesting_level above 0
OnlyOutermostFlush ==
    /\ \A i \in SendFrames : i = 2 /\ MainStack[1].fn = "nested" /\ MainStack[1].pc = 158
                             /\ nesting_level = 0
    /\ \A i \in 2..Len(MainStack) :
         (MainStack[i].fn = "nested" /\ MainStack[i].pc \in {157, 159}) => nesting_level > 0

\* C4: from nesting_level 0 and an empty buffer, one call of a function under k
\* stacked decorators whose body returns appends one metric per decorator and
\* makes one send(): transport calls happen only in the send() of the outermost
\* wrapper, after all k have recorded, in one flush that holds the k metrics.
C4_StackedWrappersFlushOnce ==
    (/\ ThisCall.op = "call"
     /\ Plain(ThisCall.prog)
     /\ ThisCall.pre.level = 0
     /\ ThisCall.pre.metrics = <<>>)
    => /\ OnlyOutermostFlush
       /\ \A i \in CallsOfThisCall :
            /\ i = ThisCall.pre.nsent + 1
            /\ NamesOf(sent[i].batch) = RecordedBy(ThisCall.prog[1].ws)
       /\ (SendFrames # {} /\ Len(sent) = ThisCall.pre.nsent)
            => NamesOf(metrics) = RecordedBy(ThisCall.prog[1].ws)
       /\ Completed => Len(sent) = ThisCall.pre.nsent + 1

\* test_nesting: @count @timeit @count(100) on one function, called once
C4_Witness ==
    /\ ThisCall.op = "call" /\ ThisCall.status = "returned"
    /\ Plain(ThisCall.prog) /\ Len(ThisCall.prog[1].ws) = 3
    /\ ThisCall.pre.level = 0 /\ ThisCall.pre.metrics = <<>>
    /\ Len(sent) = 1 /\ sent[1].outcome = "ok" /\ Len(sent[1].batch) = 3
    /\ metrics = <<>>

\* C5: when decorated functions call decorated functions (from nesting_level 0,
\* every body returning), no flush happens when an inner function returns, where
\* nesting_level is above 0; the one flush is the outermost wrapper's, and its
\* batch holds what was buffered before and the metrics of the inner and the
\* outer functions.
C5_CallInCallFlushOnce ==
    (/\ ThisCall.op = "call"
     /\ CallChain(ThisCall.prog)
     /\ ThisCall.pre.level = 0)
    => /\ OnlyOutermostFlush
       /\ \A i \in CallsOfThisCall :
            /\ i = ThisCall.pre.nsent + 1
            /\ NamesOf(sent[i].batch) = NamesOf(ThisCall.pre.metrics) \o ExpectedNames(ThisCall.prog)
       /\ Completed => Len(sent) = ThisCall.pre.nsent + 1

\* test_function_in_function, three deep: func3 calls func2 calls func1
C5_Witness ==
    /\ ThisCall.op = "call" /\ ThisCall.status = "returned"
    /\ CallChain(ThisCall.prog) /\ Len(ThisCall.prog) = 3
    /\ ThisCall.pre.level = 0 /\ ThisCall.pre.metrics # <<>>
    /\ Len(sent) = 1 /\ sent[1].outcome = "ok" /\ Len(sent[1].batch) = 4
    /\ metrics = <<>>

\* C6: a decorated call returns the wrapped function's value when that returned
\* (the outermost wrapper is past line 154) and raises when it raised, whatever
\* the transport does in the wrapper's flush.
C6_OutcomePreserved ==
    (ThisCall.op = "call" /\ Completed)
    => IF ThisCall.frame.pc = 154
       THEN ThisCall.status = "raised"
       ELSE ThisCall.status = "returned" /\ ThisCall.val = RetValue

\* C7: when no decorated call is active, nesting_level is 0, and a decorated call
\* that has ended, normally or with an error, leaves nesting_level at the value
\* it had before the call.
C7_CounterRestored ==
    /\ MainStack = <<>> => nesting_level = 0
    /\ (ThisCall.op = "call" /\ Completed) => nesting_level = ThisCall.pre.level

\* the metrics appended since the top-level call began
NewMetrics == SelectSeq(metrics, LAMBDA m : m.Timestamp >= ThisCall.pre.clock)
\* the function of the chain whose body raises: the innermost one that ends by raise
Raiser(prog) == CHOOSE j \in 1..Len(prog) :
                    prog[j].end = "raise" /\ \A i \in (j + 1)..Len(prog) : prog[i].end = "return"

C10_CountRecordsEachCall ==
    (/\ ThisCall.op = "call" /\ Completed
     /\ Plain(ThisCall.prog) /\ Len(ThisCall.prog[1].ws) = 1
     /\ ThisCall.prog[1].ws[1].kind = "count"
     /\ ThisCall.pre.level = 0 /\ ThisCall.pre.metrics = <<>>
     /\ \A i \in CallsOfThisCall : sent[i].outcome = "ok")
    => /\ ThisCall.status = "returned"
       /\ Len(sent) = ThisCall.pre.nsent + 1
       /\ Len(sent[Len(sent)].batch) = 1
       /\ sent[Len(sent)].batch[1].MetricName = ThisCall.prog[1].ws[1].metric_name
       /\ sent[Len(sent)].batch[1].Value = ThisCall.prog[1].ws[1].count_value
       /\ metrics = <<>>
       /\ nesting_level = 0

\* test_count_decorator with three calls: three batches of one metric of value 1
C10_Witness ==
    /\ ThisCall.op = "call" /\ ThisCall.status = "returned"
    /\ Len(sent) = 3
    /\ \A i \in 1..3 : /\ sent[i].outcome = "ok"
                       /\ Len(sent[i].batch) = 1
                       /\ sent[i].batch[1].MetricName = "count_metric"
                       /\ sent[i].batch[1].Value = 1
    /\ metrics = <<>> /\ nesting_level = 0

\* C11: put_value and put_statistic called by the application append one metric
\* at the end of the buffer (the earlier metrics unchanged and in their order, a
\* Value metric for put_value and a StatisticValues metric for put_statistic),
\* make no transport call and leave nesting_level as it was; a send() runs only
\* as a call of the application, as the statement of a body, or at line 158 of
\* the guard.
C11_PutOnlyAppends ==
    /\ ThisCall.op \in {"put_value", "put_statistic"}
       => /\ Len(metrics) = Len(ThisCall.pre.metrics) + 1
          /\ SubSeq(metrics, 1, Len(ThisCall.pre.metrics)) = ThisCall.pre.metrics
          /\ (ThisCall.op = "put_value") = ("Value" \in DOMAIN metrics[Len(metrics)])
          /\ (ThisCall.op = "put_statistic") = ("StatisticValues" \in DOMAIN metrics[Len(metrics)])
          /\ Len(sent) = ThisCall.pre.nsent
          /\ nesting_level = ThisCall.pre.level
          /\ MainStack = <<>>
    /\ \A i \in SendFrames :
         \/ i = 1
         \/ MainStack[i - 1].fn = "body" /\ MainStack[i - 1].pc = 1
         \/ MainStack[i - 1].fn = "nested" /\ MainStack[i - 1].pc = 158

\* put_statistic on a buffer that holds a metric a failed send() left, with
\* nesting_level above 0
C11_Witness ==
    /\ ThisCall.op = "put_statistic"
    /\ ThisCall.pre.metrics # <<>>
    /\ ThisCall.pre.nsent >= 1
    /\ ThisCall.pre.level >= 1
    /\ Len(metrics) = Len(ThisCall.pre.metrics) + 1

\* the keys of a dict given by its items
KeysOf(d) == {d[i][1] : i \in 1..Len(d)}

\* C12: the metric a put_value/put_statistic call appends carries the dimensions
\* of the call as a sequence of Name/Value pairs: for a dict, one pair per key
\* with the key as Name and its value as Value; for a list or a tuple, the
\* elements as given, in the order given; and no Dimensions entry when the call
\* passed no dimensions.
C12_DimensionsNormalized ==
    (ThisCall.op \in {"put_value", "put_statistic"} /\ ThisCall.args # <<>>)
    => LET m == metrics[Len(metrics)]
           d == ThisCall.args.dimensions
       IN  CASE d.type = "dict" ->
                  /\ "Dimensions" \in DOMAIN m
                  /\ Len(m.Dimensions) = Cardinality(KeysOf(d.val))
                  /\ \A i \in 1..Len(d.val) :
                        Cardinality({j \in 1..Len(m.Dimensions) :
                                        m.Dimensions[j].Name = d.val[i][1]}) = 1
                  /\ \A j \in 1..Len(m.Dimensions) :
                        \E i \in 1..Len(d.val) : /\ m.Dimensions[j].Name = d.val[i][1]
                                                 /\ m.Dimensions[j].Value = d.val[i][2]
             [] d.type \in {"list", "tuple"} ->
                  /\ "Dimensions" \in DOMAIN m
                  /\ m.Dimensions = d.val
             [] OTHER -> "Dimensions" \notin DOMAIN m

\* a statistic put with a dict of two dimensions
C12_Witness ==
    /\ ThisCall.op = "put_statistic" /\ ThisCall.args # <<>>
    /\ ThisCall.args.dimensions.type = "dict"
    /\ Len(ThisCall.args.dimensions.val) = 2
    /\ Len(metrics[Len(metrics)].Dimensions) = 2

\* C13: when a transport call of send() fails with an error other than
\* Throttling, the failing batch is no longer in the buffer once send() has
\* raised, and no later transport call submits a metric of the failing batch.
C13_FailingBatchDequeued ==
    /\ (ThisCall.op = "send" /\ ThisCall.status = "raised")
       => Elems(sent[Len(sent)].batch) \cap Elems(metrics) = {}
    /\ \A i \in 1..Len(sent) : sent[i].outcome \notin {"ok", "Throttling"} =>
         \A j \in (i + 1)..Len(sent) : Elems(sent[i].batch) \cap Elems(sent[j].batch) = {}

\* the wrappers of _nested entered and not yet left: line 153 done, line 155 not
ActiveWrappers ==
    Cardinality({i \in 1..Len(MainStack) :
                    MainStack[i].fn = "nested" /\ MainStack[i].pc \in {154, 155}})

\* C14: with one thread, nesting_level is never negative; while a decorated call
\* runs it is its value before the call plus one for every wrapper entered and
\* not yet left (an entry adds 1, a normal exit takes 1 off), and outside
\* decorated calls nothing changes it; the guard calls send() only with
\* nesting_level at 0 (a wrapper waits at line 158 only then), and an exit that
\* found nesting_level at 0 has flushed.
C14_GuardStateMachine ==
    /\ nesting_level >= 0
    /\ (ThisCall.op = "call" /\ Running(MainThread))
         => nesting_level = ThisCall.pre.level + ActiveWrappers
    /\ ThisCall.op # "call" => nesting_level = ThisCall.pre.level
    /\ \A i \in 1..Len(MainStack) :
         /\ (MainStack[i].fn = "nested" /\ MainStack[i].pc = 158)
              => /\ nesting_level = 0
                 /\ i = 1
                 /\ Running(MainThread) => Len(MainStack) = 2 /\ MainStack[2].fn = "send"
         /\ (MainStack[i].fn = "nested" /\ MainStack[i].pc = 159 /\ Running(MainThread))
              => (nesting_level = 0 <=> (i = 1 /\ ThisCall.pre.level = 0))
         /\ (MainStack[i].fn = "nested" /\ MainStack[i].pc = 159 /\ Running(MainThread)
              /\ nesting_level = 0)
              => Len(sent) > ThisCall.pre.nsent

\* the guard's send() runs, nesting_level back at 0, after three wrappers of a
\* function and of the function it called were entered and left
C14_Witness ==
    /\ ThisCall.op = "call" /\ ThisCall.pre.level = 0
    /\ Len(ThisCall.prog) = 2 /\ NDecorators(ThisCall.prog) = 3
    /\ Len(MainStack) = 2 /\ MainStack[1].pc = 158
    /\ MainStack[2].fn = "send" /\ MainStack[2].pc = 95
    /\ Len(MainStack[2].loc) = 3
    /\ nesting_level = 0

\* the transport calls a send() on n buffered metrics can need: ceil(n / 20)
MaxCalls(n) == (n + BatchSize - 1) \div BatchSize
SendRunning == ThisCall.op = "send" /\ ThisCall.status = "running"

\* C15: a send() on n buffered metrics makes at most ceil(n/20) transport calls,
\* whatever their outcomes: at the head of the loop after k calls the buffer
\* holds the n metrics less the k batches of min(20, remaining); it ends
\* returning with the buffer empty or raising the error, not Throttling, of its
\* last call; and it does end when every transport call returns or raises.
C15_SendTerminates ==
    /\ [](ThisCall.op = "send" =>
            LET n == Len(ThisCall.pre.metrics)
                k == Len(sent) - ThisCall.pre.nsent
            IN  /\ k <= MaxCalls(n)
                /\ At(MainThread, "send", 91)
                     => metrics = SubSeq(ThisCall.pre.metrics, Min(BatchSize * k, n) + 1, n)
                /\ ThisCall.status = "returned" => metrics = <<>>
                /\ ThisCall.status = "raised"
                     => k >= 1 /\ sent[Len(sent)].outcome \notin {"ok", "Throttling"})
    /\ (SendRunning ~> Completed)

\* a send() on 22 metrics ended after its two transport calls, the first throttled
C15_Witness ==
    /\ ThisCall.op = "send" /\ Completed
    /\ Len(ThisCall.pre.metrics) = BatchSize + 2
    /\ Len(sent) = ThisCall.pre.nsent + 2
    /\ sent[ThisCall.pre.nsent + 1].outcome = "Throttling"

\* the metrics appended so far, by their Timestamp (the clock at the append), and
\* those of them that are neither buffered nor were ever passed to the transport
Submitted(ts) == \E i \in 1..Len(sent) : \E j \in 1..Len(sent[i].batch) : sent[i].batch[j].Timestamp = ts
Buffered(ts) == \E j \in 1..Len(metrics) : metrics[j].Timestamp = ts
Lost == {ts \in 0..(clock - 1) : ~Submitted(ts) /\ ~Buffered(ts)}

\* C16: with one thread in send() and another calling put_value on the same
\* buffer, metrics are lost (removed from the buffer, never passed to the
\* transport), and only this way: a lost metric was appended behind a batch of
\* fewer than 20 that send() had read, and was among the first 20 of the buffer
\* when line 101 deleted them; a batch of 20 loses nothing.
C16_LossOnlyBehindShortBatch ==
    \A ts \in Lost :
        \E i \in 1..Len(sent) :
            LET b == sent[i].batch
            IN  /\ Len(b) < BatchSize
                /\ sent[i].outcome \in {"ok", "Throttling"}
                /\ b[Len(b)].Timestamp < ts
                /\ ts < b[1].Timestamp + BatchSize

\* send() read a batch of fewer than 20, the other thread appended, line 101
\* deleted the appended metric too, and send() returned: the metric is lost
C16_Witness ==
    /\ Lost # {}
    /\ ThisCall.op = "send" /\ ThisCall.status = "returned"
    /\ metrics = <<>>
    /\ \A i \in 1..Len(sent) : sent[i].outcome = "ok"

\* the metric thread t's call recorded is still in the buffer
OwnMetricBuffered(t) ==
    \E j \in 1..Len(metrics) :
        /\ metrics[j].MetricName = ProgramOf(t)[1].ws[1].metric_name
        /\ metrics[j].Timestamp >= top[t].pre.clock
\* the call thread t made has returned to the thread
CallReturned(t) == top[t].op = "call" /\ top[t].status = "returned"

\* C17: with two threads calling decorated functions of one buffer, a thread's
\* outermost call does return leaving its metric unsent in the buffer; with a
\* transport that accepts every batch this happens only with the shared
\* nesting_level off 0 or the other thread inside a decorated call: the exit
\* found nesting_level raised by the other thread and called no send().
C17_UnsentOnlyWhileOtherActive ==
    \A t \in Threads :
        (/\ CallReturned(t)
         /\ OwnMetricBuffered(t)
         /\ \A i \in 1..Len(sent) : sent[i].outcome = "ok")
        => \/ nesting_level # 0
           \/ \E u \in Threads \ {t} : stack[u] # <<>>

\* the main thread's call has returned with nesting_level at 1 and no transport
\* call made: its metric is in the buffer, the other thread is in its body
C17_Witness ==
    /\ CallReturned(MainThread)
    /\ OwnMetricBuffered(MainThread)
    /\ nesting_level = 1
    /\ sent = <<>>
    /\ stack[OtherThread] # <<>> /\ Top(OtherThread).fn = "body"

\* the innermost function of the program calls mb.send() in its body
HasExplicitSend(prog) == prog # <<>> /\ prog[Len(prog)].stmt = "send"
\* every transport call so far was accepted
TransportSucceeds == \A i \in 1..Len(sent) : sent[i].outcome = "ok"
\* no metric is in two places of the transport log
NoneSubmittedTwice ==
    \A i, j \in 1..Len(sent) : \A a \in 1..Len(sent[i].batch) : \A b \in 1..Len(sent[j].batch) :
        sent[i].batch[a] = sent[j].batch[b] => (i = j /\ a = b)

\* C18: an mb.send() in the body of a decorated function (nesting_level above 0)
\* empties the buffer there and then and leaves nesting_level as it is; with a
\* transport that accepts every batch, the explicit send() has passed what was
\* buffered before the call, the flush of the guard passes the metrics the
\* wrappers recorded after it and no others, no metric is passed twice, and the
\* buffer is empty once the outermost call (begun at nesting_level 0) returned.
C18_ExplicitSendInsideCall ==
    (ThisCall.op = "call" /\ HasExplicitSend(ThisCall.prog))
    => /\ \A i \in 1..Len(MainStack) :
            (/\ MainStack[i].fn = "body" /\ MainStack[i].pc = 2
             /\ MainStack[i].prog[1].stmt = "send" /\ Running(MainThread))
            => /\ metrics = <<>>
               /\ nesting_level = ThisCall.pre.level + ActiveWrappers
               /\ nesting_level > 0
               /\ TransportSucceeds
                    => ConcatBatches(ThisCall.pre.nsent + 1, Len(sent)) = ThisCall.pre.metrics
       /\ \A i \in SendFrames : MainStack[i - 1].fn = "body"
                                 => nesting_level = ThisCall.pre.level + ActiveWrappers
       /\ (ThisCall.status = "returned" /\ ThisCall.pre.level = 0 /\ TransportSucceeds)
            => /\ metrics = <<>>
               /\ NoneSubmittedTwice
               /\ NamesOf(sent[Len(sent)].batch) = ExpectedNames(ThisCall.prog)
               /\ NamesOf(ConcatBatches(ThisCall.pre.nsent + 1, Len(sent)))
                    = NamesOf(ThisCall.pre.metrics) \o ExpectedNames(ThisCall.prog)

\* a decorated function called a decorated function whose body called mb.send()
\* on a buffer that held a metric: the explicit send() and the guard's flush
\* each made one transport call
C18_Witness ==
    /\ ThisCall.op = "call" /\ ThisCall.status = "returned"
    /\ Len(ThisCall.prog) = 2 /\ HasExplicitSend(ThisCall.prog)
    /\ ThisCall.pre.level = 0 /\ ThisCall.pre.metrics # <<>>
    /\ Len(sent) = ThisCall.pre.nsent + 2
    /\ TransportSucceeds
    /\ Len(sent[Len(sent)].batch) = 2
    /\ metrics = <<>>

\* the call ended with the error of the send() its outermost wrapper made at line 158
GuardFlushRaised ==
    /\ ThisCall.op = "call" /\ ThisCall.status = "raised"
    /\ ThisCall.frame.fn = "nested" /\ ThisCall.frame.pc = 158

\* C19: when the send() of the guard raises, nesting_level is already 0 (line
\* 155 ran before line 158) and stays 0 while the error propagates and after it
\* reached the caller; the next outermost decorated call that returns then
\* flushes again: it makes a transport call, which begins with the metrics the
\* failed flush left in the buffer.
C19_GuardSurvivesFailedFlush ==
    /\ (/\ exc[MainThread] \notin {NoExc, AppError}
        /\ MainStack # <<>> /\ MainStack[1].fn = "nested" /\ MainStack[1].pc = 158)
       => nesting_level = 0
    /\ GuardFlushRaised
       => /\ nesting_level = 0
          /\ ThisCall.val = sent[Len(sent)].outcome
          /\ ThisCall.val \notin {"ok", "Throttling", AppError}
    /\ (/\ ThisCall.op = "call" /\ ThisCall.status = "returned"
        /\ ThisCall.pre.level = 0
        /\ ThisCall.pre.nsent >= 1
        /\ sent[ThisCall.pre.nsent].outcome \notin {"ok", "Throttling"})
       => /\ Len(sent) > ThisCall.pre.nsent
          /\ ThisCall.pre.metrics # <<>>
          /\ sent[ThisCall.pre.nsent + 1].batch[1] = ThisCall.pre.metrics[1]
          /\ nesting_level = 0

\* the flush of a first decorated call failed; a second decorated call returned
\* and its flush passed both metrics
C19_Witness ==
    /\ Len(sent) = 2
    /\ sent[1].outcome = "InternalFailure"
    /\ NamesOf(sent[1].batch) = <<"count_metric">>
    /\ ThisCall.op = "call" /\ ThisCall.status = "returned"
    /\ ThisCall.pre.level = 0 /\ ThisCall.pre.nsent = 1
    /\ sent[2].outcome = "ok" /\ Len(sent[2].batch) = 2
    /\ metrics = <<>> /\ nesting_level = 0

====
